---- MODULE Spec2Model ----
(***************************************************************************)
(* dphox/component/multilayer.py: the layer store of a Multilayer          *)
(* (_init_multilayer, add) and the topographic process-step interpreter    *)
(* (_build_layers with _conformal_dilation, _raise_surface and             *)
(* _update_layer_to_extrusion), and the two export adapters                *)
(* (to_trimesh_dict with _build_layers_v0, meep_geometry).                 *)
(*                                                                         *)
(* Geometry is one-dimensional and discrete: a polygon set is the set of   *)
(* unit cells it covers, so union, intersection and difference are the set *)
(* operations and offset(grow_d) adds grow_d cells on either side.  Heights *)
(* and z-ranges are integers counting units of the precision of the        *)
(* elevation keys; one cell is one such unit wide.                         *)
(***************************************************************************)
EXTENDS Integers, Sequences, FiniteSets, TLC

VARIABLES
    pattern_to_layer,            \* self.pattern_to_layer: list of (pattern object, layer)
    layer_to_pattern,            \* self.layer_to_pattern: the layer store
    layer_to_zrange,             \* argument of _build_layers: the z-range table
    layer_to_pattern_processed,  \* working copy of the layer store
    topo_map_dict,               \* the height map: elevation key -> cross-section
    old_topo_map_dict,           \* snapshot taken before a relation mutates the map
    dilated_topo_map_dict,       \* the map between _conformal_dilation and _raise_surface
    layer_to_extrusion,          \* the extrusion table
    new_zrange,                  \* local of _build_layers
    step,                        \* name of the current step (the tags it contains)
    operations,                  \* primary layers of the current step's relations
    k,                           \* number of relations of the current step unpacked
    layer, other_layer, operation,   \* the relation unpacked last
    pattern, raising_pattern, thickness, heights,
    bound,                       \* the locals of _build_layers that are assigned
    n_rel,                       \* relations unpacked in this run
    pc, exception,
    process_extrusion,           \* argument of the export adapters: None or a script
    n_step,                      \* steps of process_extrusion that _build_layers began
    trimesh_extrusion,           \* layer_to_extrusion of to_trimesh_dict
    meshes,                      \* the dict to_trimesh_dict returns
    trimesh_result,              \* how the call of to_trimesh_dict ended
    meep_geometries,             \* the dict meep_geometry returns
    meep_result                  \* how the call of meep_geometry ended

vars == <<pattern_to_layer, layer_to_pattern, layer_to_zrange,
          layer_to_pattern_processed, topo_map_dict, old_topo_map_dict,
          dilated_topo_map_dict, layer_to_extrusion, new_zrange, step,
          operations, k, layer, other_layer, operation, pattern,
          raising_pattern, thickness, heights, bound, n_rel, pc, exception,
          process_extrusion, n_step, trimesh_extrusion, meshes, trimesh_result,
          meep_geometries, meep_result>>

export_vars == <<process_extrusion, n_step, trimesh_extrusion, meshes,
                 trimesh_result, meep_geometries, meep_result>>

interp_vars == <<layer_to_zrange, layer_to_pattern_processed, topo_map_dict,
                 old_topo_map_dict, dilated_topo_map_dict, layer_to_extrusion,
                 new_zrange, step, operations, k, layer, other_layer, operation,
                 pattern, raising_pattern, thickness, heights, bound, n_rel,
                 exception>>

----------------------------------------------------------------------------
(* Bounds of the model. *)

MaxRel == 2      \* relations in one script
MaxOps == 2      \* relations in one step
MaxPairs == 3    \* (pattern, layer) pairs given to a Multilayer
Pad == 1         \* cells kept around the design extent for offset to grow into
MaxElevation == 2    \* highest elevation of a height map given to one relation
MaxThickness == 2    \* largest thickness given to one relation

----------------------------------------------------------------------------
(* Inputs: pattern objects, layer names, z-range tables, step names. *)

PatternObjs == {"p1", "p2", "p3"}

Layers == {"a", "b", "c", "d"}

NoLayer == "none"    \* a relation without reference layer

Operations == {"union", "intersection", "difference"}

Tags == {"etch", "conformal", "dope"}

\* A step name is modelled by the set of tags it has as substrings.
StepNames == SUBSET Tags

\* The pair list the interpreter's Multilayer is built from: layers a, b and c
\* are in the layer store, d is not.
DesignPairs == << <<"p1", "a">>, <<"p2", "b">>, <<"p3", "c">> >>

\* z-range tables (z-max >= z-min): c never has an entry, d has one.
ZrangeTables ==
    { [l \in {"a", "b", "d"} |->
          CASE l = "a" -> <<0, 2>> [] l = "b" -> <<1, 2>> [] l = "d" -> <<0, 1>>],
      [l \in {"a", "b", "d"} |->
          CASE l = "a" -> <<0, 200>> [] l = "b" -> <<0, 1000>> [] l = "d" -> <<0, 200>>],
      [l \in {"a", "b", "d"} |->
          CASE l = "a" -> <<1, 1>> [] l = "b" -> <<0, 1>> [] l = "d" -> <<0, 1>>] }

----------------------------------------------------------------------------
(* Polygon-set algebra (dphox.component.pattern) and elevation keys         *)
(* (dphox.utils._um_str).                                                   *)

Min(S) == CHOOSE x \in S : \A y \in S : x <= y
Max(S) == CHOOSE x \in S : \A y \in S : x >= y

\* Pattern.boolean_operation(other, operation)
BooleanOperation(p, q, op) ==
    CASE op = "union" -> p \cup q
      [] op = "intersection" -> p \cap q
      [] op = "difference" -> p \ q

\* digits after the decimal point of an elevation key, as a power of ten
UmScale == 1000

\* _um_str(x): the canonical fixed-precision key of a height: whole part and
\* fractional digits
UmStr(x) == <<x \div UmScale, x % UmScale>>

\* float(key)
Float(key) == key[1] * UmScale + key[2]

\* _um_str applied to a key (a string), as _update_layer_to_extrusion does
UmStrKey(key) == UmStr(Float(key))

\* Multilayer.bounds: the extent of everything in the layer store
Bounds(store) ==
    LET all == UNION {store[l] : l \in DOMAIN store}
    IN  <<Min(all), Max(all)>>

\* bounding_box of _build_layers
BoundingBox == Bounds(layer_to_pattern)[1] .. Bounds(layer_to_pattern)[2]

\* component.polys: the cells a pattern object covers; "box" is the object
\* Box(self.size).align(self.center) that to_trimesh_dict makes for the oxide
Polys(comp) ==
    CASE comp = "p1" -> {1, 2, 3}
      [] comp = "p2" -> {1, 2}
      [] comp = "p3" -> {5}
      [] comp = "box" -> BoundingBox

\* the part of the plane the polygon algebra is evaluated on
Plane == (Bounds(layer_to_pattern)[1] - Pad) .. (Bounds(layer_to_pattern)[2] + Pad)

\* Pattern.offset(grow_d): isotropic growth by grow_d
Offset(p, grow_d) ==
    {c \in Plane : \E s \in p : c - s <= grow_d /\ s - c <= grow_d}

----------------------------------------------------------------------------
(* The layer store. *)

\* self._pattern_to_layer: a dict keyed by the pattern object, so a later pair
\* with the same object replaces the layer of an earlier one.  All objects
\* here are Pattern instances (the isinstance branch that keeps the layer).
PatternToLayerDict(pairs) ==
    [comp \in {pairs[i][1] : i \in DOMAIN pairs} |->
        pairs[Max({i \in DOMAIN pairs : pairs[i][1] = comp})][2]]

\* _init_multilayer: layer -> MultiPolygon of the polys of every component the
\* dict maps to that layer (ports are left out)
InitMultilayer(pairs) ==
    LET d == PatternToLayerDict(pairs)
    IN  [l \in {d[comp] : comp \in DOMAIN d} |->
            UNION {Polys(comp) : comp \in {c \in DOMAIN d : d[c] = l}}]

----------------------------------------------------------------------------
(* The process-step interpreter's helpers. *)

\* sorted_heights: list(map(float, heights)) sorted in reverse
RECURSIVE SortDesc(_)
SortDesc(S) ==
    IF S = {} THEN <<>> ELSE <<Max(S)>> \o SortDesc(S \ {Max(S)})

\* sorted_heights in ascending order
RECURSIVE SortAsc(_)
SortAsc(S) ==
    IF S = {} THEN <<>> ELSE <<Min(S)>> \o SortAsc(S \ {Min(S)})

\* SortedHeights without reverse=True
SortedHeightsAscending(hs) == SortAsc({Float(h) : h \in hs})

SortedHeights(hs) == SortDesc({Float(h) : h \in hs})

\* DilationInner without the pairwise difference: the taller elevations are
\* never subtracted from the shorter ones
RECURSIVE DilationInnerNoDifference(_, _, _, _, _, _)
DilationInnerNoDifference(sorted_heights, i, j, t, topo, raising) ==
    IF j > Len(sorted_heights) THEN topo
    ELSE LET supr == UmStr(sorted_heights[j])
             topo1 ==
                 IF i = 1
                 THEN [topo EXCEPT ![supr] =
                          (Offset(topo[supr], t) \cap raising) \cup topo[supr]]
                 ELSE topo
         IN  DilationInnerNoDifference(sorted_heights, i, j + 1, t, topo1, raising)

\* DilationInner with the comparison of the difference branch reversed
RECURSIVE DilationInnerReversed(_, _, _, _, _, _)
DilationInnerReversed(sorted_heights, i, j, t, topo, raising) ==
    IF j > Len(sorted_heights) THEN topo
    ELSE LET supr == UmStr(sorted_heights[j])
             infr == UmStr(sorted_heights[i])
             topo1 ==
                 IF i = 1
                 THEN [topo EXCEPT ![supr] =
                          (Offset(topo[supr], t) \cap raising) \cup topo[supr]]
                 ELSE IF sorted_heights[j] < sorted_heights[i]
                 THEN [topo EXCEPT ![infr] = topo[infr] \ topo[supr]]
                 ELSE topo
         IN  DilationInnerReversed(sorted_heights, i, j + 1, t, topo1, raising)

\* DilationInner that grows the tallest elevation only
RECURSIVE DilationInnerTallestOnly(_, _, _, _, _, _)
DilationInnerTallestOnly(sorted_heights, i, j, t, topo, raising) ==
    IF j > Len(sorted_heights) THEN topo
    ELSE LET supr == UmStr(sorted_heights[j])
             infr == UmStr(sorted_heights[i])
             topo1 ==
                 IF i = 1
                 THEN IF j = 1
                      THEN [topo EXCEPT ![supr] =
                               (Offset(topo[supr], t) \cap raising) \cup topo[supr]]
                      ELSE topo
                 ELSE IF sorted_heights[j] > sorted_heights[i]
                 THEN [topo EXCEPT ![infr] = topo[infr] \ topo[supr]]
                 ELSE topo
         IN  DilationInnerTallestOnly(sorted_heights, i, j + 1, t, topo1, raising)

\* inner loop of _conformal_dilation, from the j-th supr_h on, for the i-th
\* infr_h (count = i - 1)
RECURSIVE DilationInner(_, _, _, _, _, _)
DilationInner(sorted_heights, i, j, t, topo, raising) ==
    IF j > Len(sorted_heights) THEN topo
    ELSE LET supr == UmStr(sorted_heights[j])
             infr == UmStr(sorted_heights[i])
             topo1 ==
                 IF i = 1
                 THEN [topo EXCEPT ![supr] =
                          (Offset(topo[supr], t) \cap raising) \cup topo[supr]]
                 ELSE IF sorted_heights[j] > sorted_heights[i]
                 THEN [topo EXCEPT ![infr] = topo[infr] \ topo[supr]]
                 ELSE topo
         IN  DilationInner(sorted_heights, i, j + 1, t, topo1, raising)

\* outer loop of _conformal_dilation, from the i-th infr_h on
RECURSIVE DilationOuter(_, _, _, _, _, _)
DilationOuter(sorted_heights, i, t, topo, raising, bounding_box) ==
    IF i > Len(sorted_heights) THEN topo
    ELSE LET topo1 == DilationInner(sorted_heights, i, 1, t, topo, raising)
             infr == UmStr(sorted_heights[i])
         IN  DilationOuter(sorted_heights, i + 1, t,
                 [topo1 EXCEPT ![infr] = bounding_box \cap topo1[infr]],
                 raising, bounding_box)

\* _conformal_dilation
ConformalDilation(sorted_heights, t, topo, raising, bounding_box) ==
    DilationOuter(sorted_heights, 1, t, topo, raising, bounding_box)

\* RaiseElevation that leaves the raised area behind at the old elevation
RaiseElevationKeepsRaised(elevation, t, topo, raising) ==
    LET elevation_str == UmStr(elevation)
        raised == raising \cap topo[elevation_str]
        up == UmStr(elevation + t)
    IN  IF up \in DOMAIN topo
        THEN [topo EXCEPT ![up] = topo[up] \cup raised]
        ELSE [key \in DOMAIN topo \cup {up} |->
                 IF key = up THEN raised ELSE topo[key]]

\* RaiseElevation that deletes an elevation all of whose area was raised
RaiseElevationDropsEmptied(elevation, t, topo, raising) ==
    LET elevation_str == UmStr(elevation)
        raised == raising \cap topo[elevation_str]
        not_raised == topo[elevation_str] \ raised
        up == UmStr(elevation + t)
        keys == IF not_raised = {} /\ up # elevation_str
                THEN (DOMAIN topo \ {elevation_str}) \cup {up}
                ELSE DOMAIN topo \cup {up}
    IN  [key \in keys |->
            IF key = up
            THEN (IF up \in DOMAIN topo /\ up # elevation_str
                  THEN topo[up] ELSE IF up = elevation_str THEN not_raised ELSE {})
                     \cup raised
            ELSE IF key = elevation_str THEN not_raised ELSE topo[key]]

\* one iteration of the loop of _raise_surface
RaiseElevation(elevation, t, topo, raising) ==
    LET elevation_str == UmStr(elevation)
        raised == raising \cap topo[elevation_str]
        not_raised == topo[elevation_str] \ raised
        topo1 == [topo EXCEPT ![elevation_str] = not_raised]
        up == UmStr(elevation + t)
    IN  IF up \in DOMAIN topo1
        THEN [topo1 EXCEPT ![up] = topo1[up] \cup raised]
        ELSE [key \in DOMAIN topo1 \cup {up} |->
                 IF key = up THEN raised ELSE topo1[key]]

\* _raise_surface, from the i-th elevation on
RECURSIVE RaiseFrom(_, _, _, _, _)
RaiseFrom(sorted_heights, i, t, topo, raising) ==
    IF i > Len(sorted_heights) THEN topo
    ELSE RaiseFrom(sorted_heights, i + 1, t,
             RaiseElevation(sorted_heights[i], t, topo, raising), raising)

\* _raise_surface
RaiseSurface(sorted_heights, t, topo, raising) ==
    RaiseFrom(sorted_heights, 1, t, topo, raising)

\* the name f'{layer}_{_um_str(old_elevation)}_{_um_str(new_elevation)}'
ExtrusionName(lay, old_elevation, new_elevation) ==
    <<lay, UmStrKey(old_elevation), UmStrKey(new_elevation)>>

\* ExtrusionPairs without the test 'if extrusion_pattern.geoms'
ExtrusionPairsWithEmpty(hs, topo, old_topo) ==
    {pr \in hs \X DOMAIN topo : ~(Float(pr[1]) >= Float(pr[2]))}

\* _update_layer_to_extrusion: the (old, new) pairs it writes an entry for
ExtrusionPairs(hs, topo, old_topo) ==
    {pr \in hs \X DOMAIN topo :
        /\ ~(Float(pr[1]) >= Float(pr[2]))
        /\ topo[pr[2]] \cap old_topo[pr[1]] # {}}

\* UpdateLayerToExtrusion without the intersection with the old height map
UpdateLayerToExtrusionWholeNew(lay, hs, topo, old_topo, extrusion) ==
    LET pairs == ExtrusionPairs(hs, topo, old_topo)
        names == {ExtrusionName(lay, pr[1], pr[2]) : pr \in pairs}
        pairOf(nm) == CHOOSE pr \in pairs : ExtrusionName(lay, pr[1], pr[2]) = nm
    IN  [nm \in DOMAIN extrusion \cup names |->
            IF nm \in names
            THEN <<topo[pairOf(nm)[2]],
                   <<Float(pairOf(nm)[1]), Float(pairOf(nm)[2])>> >>
            ELSE extrusion[nm]]

\* UpdateLayerToExtrusion with the bounds of the z-interval swapped
UpdateLayerToExtrusionSwapped(lay, hs, topo, old_topo, extrusion) ==
    LET pairs == ExtrusionPairs(hs, topo, old_topo)
        names == {ExtrusionName(lay, pr[1], pr[2]) : pr \in pairs}
        pairOf(nm) == CHOOSE pr \in pairs : ExtrusionName(lay, pr[1], pr[2]) = nm
    IN  [nm \in DOMAIN extrusion \cup names |->
            IF nm \in names
            THEN <<topo[pairOf(nm)[2]] \cap old_topo[pairOf(nm)[1]],
                   <<Float(pairOf(nm)[2]), Float(pairOf(nm)[1])>> >>
            ELSE extrusion[nm]]

\* _update_layer_to_extrusion.  Distinct pairs write distinct names, so the
\* order of the two loops does not show in the result.
UpdateLayerToExtrusion(lay, hs, topo, old_topo, extrusion) ==
    LET pairs == ExtrusionPairs(hs, topo, old_topo)
        names == {ExtrusionName(lay, pr[1], pr[2]) : pr \in pairs}
        pairOf(nm) == CHOOSE pr \in pairs : ExtrusionName(lay, pr[1], pr[2]) = nm
    IN  [nm \in DOMAIN extrusion \cup names |->
            IF nm \in names
            THEN <<topo[pairOf(nm)[2]] \cap old_topo[pairOf(nm)[1]],
                   <<Float(pairOf(nm)[1]), Float(pairOf(nm)[2])>> >>
            ELSE extrusion[nm]]

\* 'etch' in step, 'conformal' in step, 'dope' in step
Has(tag, name) == tag \in name

\* DopeZrange without the clamp at the reference layer's floor
DopeZrangeUnclamped(zr, other_zr) ==
    <<other_zr[2] - (zr[2] - zr[1]), other_zr[2]>>

\* new_zrange of a doping intersection
DopeZrange(zr, other_zr) ==
    <<Max({other_zr[2] - (zr[2] - zr[1]), other_zr[1]}), other_zr[2]>>

\* raising_pattern
RaisingPattern(name, pat) ==
    IF Has("etch", name) THEN BoundingBox \ pat ELSE pat

----------------------------------------------------------------------------
(* _build_layers: the state at the head of the loop over the steps, for a  *)
(* Multilayer built from DesignPairs.                                       *)

\* no export adapter has been called
NoExport ==
    /\ process_extrusion = [is_none |-> TRUE, items |-> <<>>]
    /\ n_step = 0
    /\ trimesh_extrusion = <<>>
    /\ meshes = <<>>
    /\ trimesh_result = "none"
    /\ meep_geometries = <<>>
    /\ meep_result = "none"

Init ==
    /\ pattern_to_layer = DesignPairs
    /\ layer_to_pattern = InitMultilayer(pattern_to_layer)
    /\ layer_to_zrange \in ZrangeTables
    /\ layer_to_pattern_processed = layer_to_pattern
    /\ topo_map_dict = [key \in {UmStr(0)} |-> BoundingBox]
    /\ old_topo_map_dict = topo_map_dict
    /\ dilated_topo_map_dict = topo_map_dict
    /\ layer_to_extrusion = <<>>
    /\ new_zrange = <<0, 0>>
    /\ step = {}
    /\ operations = <<>>
    /\ k = 0
    /\ layer = NoLayer
    /\ other_layer = NoLayer
    /\ operation = "union"
    /\ pattern = {}
    /\ raising_pattern = {}
    /\ thickness = 0
    /\ heights = {}
    /\ bound = {}
    /\ n_rel = 0
    /\ pc = "loop"
    /\ exception = "none"
    /\ NoExport

\* `layers`: the keys of the working layer store
InLayers(l) == l \in DOMAIN layer_to_pattern_processed

\* try: new_zrange = layer_to_zrange[layer]; except KeyError: print(...)
\* leaves new_zrange as the relation before left it
LookedUpZrange(lay) ==
    IF lay \in DOMAIN layer_to_zrange THEN layer_to_zrange[lay] ELSE new_zrange

LookedUpBound(lay) ==
    IF lay \in DOMAIN layer_to_zrange THEN bound \cup {"new_zrange"} ELSE bound

\* pattern of a relation whose layer is in the layer store
RelationPattern(lay, other, op) ==
    IF InLayers(other)
    THEN BooleanOperation(layer_to_pattern_processed[lay],
                          layer_to_pattern_processed[other], op)
    ELSE layer_to_pattern_processed[lay]

\* ProcessedAfter that keeps the old shape when the boolean result is empty
ProcessedAfterNonEmpty(lay, other, op) ==
    IF InLayers(other) /\ RelationPattern(lay, other, op) # {}
    THEN [layer_to_pattern_processed EXCEPT ![lay] = RelationPattern(lay, other, op)]
    ELSE layer_to_pattern_processed

\* layer_to_pattern_processed after the boolean operation of a relation
ProcessedAfter(lay, other, op) ==
    IF InLayers(other)
    THEN [layer_to_pattern_processed EXCEPT ![lay] = RelationPattern(lay, other, op)]
    ELSE layer_to_pattern_processed

IsDoping(name, op) == Has("dope", name) /\ op = "intersection"

\* new_zrange of a relation that is processed
RelationZrange(lay, other, op) ==
    IF IsDoping(step, op)
    THEN DopeZrange(LookedUpZrange(lay), layer_to_zrange[other])
    ELSE LookedUpZrange(lay)

\* for step, operations in process_extrusion.items(): the next step of the
\* script, with the primary layers of its relations
BeginStep(name, prims) ==
    /\ pc = "loop"
    /\ k = Len(operations)
    /\ Len(prims) <= MaxOps
    /\ n_rel + Len(prims) <= MaxRel
    /\ step' = name
    /\ operations' = prims
    /\ k' = 0
    /\ UNCHANGED <<pattern_to_layer, layer_to_pattern, layer_to_zrange,
                   layer_to_pattern_processed, topo_map_dict, old_topo_map_dict,
                   dilated_topo_map_dict, layer_to_extrusion, new_zrange, layer,
                   other_layer, operation, pattern, raising_pattern, thickness,
                   heights, bound, n_rel, pc, exception>>

\* the relation (operations[k + 1], other, op) is unpacked
Unpack(other, op) ==
    /\ pc = "loop"
    /\ k < Len(operations)
    /\ k' = k + 1
    /\ n_rel' = n_rel + 1
    /\ layer' = operations[k + 1]
    /\ other_layer' = other
    /\ operation' = op
    /\ UNCHANGED <<pattern_to_layer, layer_to_pattern, layer_to_zrange, step,
                   operations>>

\* a relation whose layer is not in the layer store: only the z-range lookup
RelationNotPresent(other, op) ==
    /\ Unpack(other, op)
    /\ ~InLayers(layer')
    /\ new_zrange' = LookedUpZrange(layer')
    /\ bound' = LookedUpBound(layer')
    /\ UNCHANGED <<layer_to_pattern_processed, topo_map_dict, old_topo_map_dict,
                   dilated_topo_map_dict, layer_to_extrusion, pattern,
                   raising_pattern, thickness, heights, pc, exception>>

\* a doping intersection whose reference layer has no z-range:
\* layer_to_zrange[other_layer] raises KeyError
RelationKeyError(other, op) ==
    /\ Unpack(other, op)
    /\ InLayers(layer')
    /\ IsDoping(step, op)
    /\ other \notin DOMAIN layer_to_zrange
    /\ new_zrange' = LookedUpZrange(layer')
    /\ layer_to_pattern_processed' = ProcessedAfter(layer', other, op)
    /\ pattern' = RelationPattern(layer', other, op)
    /\ bound' = LookedUpBound(layer') \cup {"pattern"}
    /\ pc' = "raised"
    /\ exception' = "KeyError"
    /\ UNCHANGED <<topo_map_dict, old_topo_map_dict, dilated_topo_map_dict,
                   layer_to_extrusion, raising_pattern, thickness, heights>>

\* new_zrange is read before any relation assigned it: UnboundLocalError
RelationUnbound(other, op) ==
    /\ Unpack(other, op)
    /\ InLayers(layer')
    /\ IsDoping(step, op) => other \in DOMAIN layer_to_zrange
    /\ "new_zrange" \notin LookedUpBound(layer')
    /\ new_zrange' = new_zrange
    /\ layer_to_pattern_processed' = ProcessedAfter(layer', other, op)
    /\ pattern' = RelationPattern(layer', other, op)
    /\ raising_pattern' = IF IsDoping(step, op) THEN raising_pattern
                          ELSE RaisingPattern(step, pattern')
    /\ bound' = bound \cup {"pattern"}
                 \cup (IF IsDoping(step, op) THEN {} ELSE {"raising_pattern"})
    /\ pc' = "raised"
    /\ exception' = "UnboundLocalError"
    /\ UNCHANGED <<topo_map_dict, old_topo_map_dict, dilated_topo_map_dict,
                   layer_to_extrusion, thickness, heights>>

\* a relation whose layer is in the layer store, processed to the end
RelationProcessed(other, op) ==
    /\ Unpack(other, op)
    /\ InLayers(layer')
    /\ IsDoping(step, op) => other \in DOMAIN layer_to_zrange
    /\ "new_zrange" \in LookedUpBound(layer')
    /\ layer_to_pattern_processed' = ProcessedAfter(layer', other, op)
    /\ pattern' = RelationPattern(layer', other, op)
    /\ new_zrange' = RelationZrange(layer', other, op)
    /\ raising_pattern' = RaisingPattern(step, pattern')
    /\ thickness' = new_zrange'[2] - new_zrange'[1]
    /\ heights' = DOMAIN topo_map_dict
    /\ old_topo_map_dict' = topo_map_dict
    /\ dilated_topo_map_dict' =
           IF Has("conformal", step)
           THEN ConformalDilation(SortedHeights(heights'), thickness',
                                  topo_map_dict, raising_pattern', BoundingBox)
           ELSE topo_map_dict
    /\ topo_map_dict' = RaiseSurface(SortedHeights(heights'), thickness',
                                     dilated_topo_map_dict', raising_pattern')
    /\ layer_to_extrusion' =
           UpdateLayerToExtrusion(layer', heights', topo_map_dict',
                                  old_topo_map_dict', layer_to_extrusion)
    /\ bound' = LookedUpBound(layer')
                 \cup {"pattern", "raising_pattern", "topo_list"}
    /\ UNCHANGED <<pc, exception>>

\* after the last step: self.topo = Multilayer(topo_list); return
Return ==
    /\ pc = "loop"
    /\ k = Len(operations)
    /\ "topo_list" \in bound
    /\ pc' = "done"
    /\ UNCHANGED <<pattern_to_layer, layer_to_pattern>>
    /\ UNCHANGED interp_vars

\* after the last step, topo_list never assigned: UnboundLocalError
ReturnUnbound ==
    /\ pc = "loop"
    /\ k = Len(operations)
    /\ "topo_list" \notin bound
    /\ pc' = "raised"
    /\ exception' = "UnboundLocalError"
    /\ UNCHANGED <<pattern_to_layer, layer_to_pattern, layer_to_zrange,
                   layer_to_pattern_processed, topo_map_dict, old_topo_map_dict,
                   dilated_topo_map_dict, layer_to_extrusion, new_zrange, step,
                   operations, k, layer, other_layer, operation, pattern,
                   raising_pattern, thickness, heights, bound, n_rel>>

\* the sequences of primary layers a step can have
StepPrimaries == UNION {[1..n -> Layers] : n \in 0..MaxOps}

ReferenceLayers == Layers \cup {NoLayer}

Next ==
    \/ \E name \in StepNames, prims \in StepPrimaries :
           BeginStep(name, prims) /\ UNCHANGED export_vars
    \/ \E other \in ReferenceLayers, op \in Operations :
           RelationNotPresent(other, op) /\ UNCHANGED export_vars
    \/ \E other \in ReferenceLayers, op \in Operations :
           RelationKeyError(other, op) /\ UNCHANGED export_vars
    \/ \E other \in ReferenceLayers, op \in Operations :
           RelationUnbound(other, op) /\ UNCHANGED export_vars
    \/ \E other \in ReferenceLayers, op \in Operations :
           RelationProcessed(other, op) /\ UNCHANGED export_vars
    \/ Return /\ UNCHANGED export_vars
    \/ ReturnUnbound /\ UNCHANGED export_vars

Spec == Init /\ [][Next]_vars

----------------------------------------------------------------------------
(* The layer store on its own: Multilayer() followed by add(pattern, layer). *)

InitStore ==
    /\ pattern_to_layer = <<>>
    /\ layer_to_pattern = InitMultilayer(pattern_to_layer)
    /\ layer_to_zrange = <<>>
    /\ layer_to_pattern_processed = <<>>
    /\ topo_map_dict = <<>>
    /\ old_topo_map_dict = <<>>
    /\ dilated_topo_map_dict = <<>>
    /\ layer_to_extrusion = <<>>
    /\ new_zrange = <<0, 0>>
    /\ step = {}
    /\ operations = <<>>
    /\ k = 0
    /\ layer = NoLayer
    /\ other_layer = NoLayer
    /\ operation = "union"
    /\ pattern = {}
    /\ raising_pattern = {}
    /\ thickness = 0
    /\ heights = {}
    /\ bound = {}
    /\ n_rel = 0
    /\ pc = "store"
    /\ exception = "none"
    /\ NoExport

\* Multilayer.add
Add(comp, lay) ==
    /\ pc = "store"
    /\ Len(pattern_to_layer) < MaxPairs
    /\ pattern_to_layer' = Append(pattern_to_layer, <<comp, lay>>)
    /\ layer_to_pattern' = InitMultilayer(pattern_to_layer')
    /\ UNCHANGED pc
    /\ UNCHANGED interp_vars

NextStore ==
    \E comp \in PatternObjs, lay \in Layers :
        Add(comp, lay) /\ UNCHANGED export_vars

SpecStore == InitStore /\ [][NextStore]_vars

----------------------------------------------------------------------------
(* One conformal relation on its own, lines 578-586 of _build_layers: the   *)
(* height map, thickness and raising pattern it is entered with are drawn   *)
(* from the height maps over the bounding box with elevations up to         *)
(* MaxElevation.                                                            *)

\* the height map in which cell c has elevation f[c]
TopoOf(f) ==
    [key \in {UmStr(0)} \cup {UmStr(f[c]) : c \in DOMAIN f} |->
        {c \in DOMAIN f : UmStr(f[c]) = key}]

InitTopo ==
    /\ pattern_to_layer = DesignPairs
    /\ layer_to_pattern = InitMultilayer(pattern_to_layer)
    /\ layer_to_zrange = <<>>
    /\ layer_to_pattern_processed = layer_to_pattern
    /\ topo_map_dict \in {TopoOf(f) : f \in [BoundingBox -> 0..MaxElevation]}
    /\ old_topo_map_dict = topo_map_dict
    /\ dilated_topo_map_dict = topo_map_dict
    /\ layer_to_extrusion = <<>>
    /\ new_zrange = <<0, 0>>
    /\ step = {"conformal"}
    /\ operations = <<>>
    /\ k = 0
    /\ layer = NoLayer
    /\ other_layer = NoLayer
    /\ operation = "union"
    /\ pattern = {}
    /\ raising_pattern \in SUBSET BoundingBox
    /\ thickness \in 0..MaxThickness
    /\ heights = DOMAIN topo_map_dict
    /\ bound = {}
    /\ n_rel = 0
    /\ pc = "relation"
    /\ exception = "none"
    /\ NoExport

\* topo_map_dict = self._conformal_dilation(...)
Dilate ==
    /\ pc = "relation"
    /\ dilated_topo_map_dict' =
           ConformalDilation(SortedHeights(heights), thickness, topo_map_dict,
                             raising_pattern, BoundingBox)
    /\ pc' = "dilated"
    /\ UNCHANGED <<pattern_to_layer, layer_to_pattern, layer_to_zrange,
                   layer_to_pattern_processed, topo_map_dict, old_topo_map_dict,
                   layer_to_extrusion, new_zrange, step, operations, k, layer,
                   other_layer, operation, pattern, raising_pattern, thickness,
                   heights, bound, n_rel, exception>>

\* topo_map_dict = self._raise_surface(...)
Raise ==
    /\ pc = "dilated"
    /\ topo_map_dict' = RaiseSurface(SortedHeights(heights), thickness,
                                     dilated_topo_map_dict, raising_pattern)
    /\ pc' = "surface"
    /\ UNCHANGED <<pattern_to_layer, layer_to_pattern, layer_to_zrange,
                   layer_to_pattern_processed, old_topo_map_dict,
                   dilated_topo_map_dict, layer_to_extrusion, new_zrange, step,
                   operations, k, layer, other_layer, operation, pattern,
                   raising_pattern, thickness, heights, bound, n_rel, exception>>

\* a relation of a step that is not conformal: line 583 skips the dilation and
\* _raise_surface works on the height map as it stands
RaiseOnly ==
    /\ pc = "relation"
    /\ step' = {}
    /\ topo_map_dict' = RaiseSurface(SortedHeights(heights), thickness,
                                     topo_map_dict, raising_pattern)
    /\ pc' = "surface"
    /\ UNCHANGED <<pattern_to_layer, layer_to_pattern, layer_to_zrange,
                   layer_to_pattern_processed, old_topo_map_dict,
                   dilated_topo_map_dict, layer_to_extrusion, new_zrange,
                   operations, k, layer, other_layer, operation, pattern,
                   raising_pattern, thickness, heights, bound, n_rel, exception>>

NextTopo ==
    \/ Dilate /\ UNCHANGED export_vars
    \/ Raise /\ UNCHANGED export_vars
    \/ RaiseOnly /\ UNCHANGED export_vars

SpecTopo == InitTopo /\ [][NextTopo]_vars

----------------------------------------------------------------------------
(* The export adapters: to_trimesh_dict (with _build_layers_v0) and          *)
(* meep_geometry (with _build_layers), called one after the other on one    *)
(* Multilayer with the same z-range table and the same process_extrusion.   *)

\* the inputs of the scripts given to the adapters
ExportStepNames == {{}, {"etch"}, {"dope"}, {"conformal"}}
ExportRelations == Layers \X {NoLayer, "a"} \X {"union", "intersection"}

\* the steps with n relations
StepsOf(n) == [name : ExportStepNames, operations : [1..n -> ExportRelations]]

\* process_extrusion: one step of up to MaxOps relations, or two steps of one
\* relation each, or no step
ExportScripts ==
    {<<>>}
    \cup {<<s>> : s \in UNION {StepsOf(n) : n \in 1..MaxOps}}
    \cup {<<s1, s2>> : s1 \in StepsOf(1), s2 \in StepsOf(1)}

\* the keys of layer_to_material
MaterialTables == {{"a", "b", "c"}, {"a"}}

\* the relations of a script in the order the two loops visit them, each with
\* the name of its step
RECURSIVE FlatRelations(_, _)
FlatRelations(items, i) ==
    IF i > Len(items) THEN <<>>
    ELSE [r \in 1..Len(items[i].operations) |->
             <<items[i].name, items[i].operations[r][1],
               items[i].operations[r][2], items[i].operations[r][3]>>]
         \o FlatRelations(items, i + 1)

\* the prisms of a cross-section extruded over zrange: height zmax - zmin,
\* translated to zmin
Prisms(pat, zrange) ==
    {<<c, zrange[1], zrange[1] + (zrange[2] - zrange[1])>> : c \in pat}

\* one relation of _build_layers_v0; st holds the locals
\* layer_to_pattern_processed and layer_to_extrusion, and whether a lookup
\* in layer_to_zrange has raised KeyError
V0Relation(st, rel, store, zranges) ==
    LET name == rel[1]
        lay == rel[2]
        other == rel[3]
        op == rel[4]
        doping == Has("dope", name) /\ op = "intersection"
    IN  IF st.raised THEN st
        ELSE IF doping /\ (other \notin DOMAIN zranges \/ lay \notin DOMAIN zranges)
        THEN [st EXCEPT !.raised = TRUE]
        ELSE IF ~doping /\ lay \notin DOMAIN zranges
        THEN [st EXCEPT !.raised = TRUE]
        ELSE LET zr == IF doping
                       THEN DopeZrange(zranges[lay], zranges[other])
                       ELSE zranges[lay]
                 pat == IF other \in DOMAIN store
                        THEN BooleanOperation(st.processed[lay],
                                              st.processed[other], op)
                        ELSE st.processed[lay]
             IN  IF lay \in DOMAIN store /\ pat # {}
                 THEN [st EXCEPT
                          !.processed = [st.processed EXCEPT ![lay] = pat],
                          !.extrusion =
                              [l \in DOMAIN st.extrusion \cup {lay} |->
                                  IF l = lay THEN <<pat, zr>>
                                  ELSE st.extrusion[l]]]
                 ELSE st

\* the loops of _build_layers_v0, from the i-th relation on
RECURSIVE V0From(_, _, _, _, _)
V0From(rels, i, st, store, zranges) ==
    IF i > Len(rels) THEN st
    ELSE V0From(rels, i + 1, V0Relation(st, rels[i], store, zranges),
                store, zranges)

\* _build_layers_v0
BuildLayersV0(store, zranges, items) ==
    V0From(FlatRelations(items, 1), 1,
           [raised |-> FALSE, processed |-> store, extrusion |-> <<>>],
           store, zranges)

\* the entries the scripted path of to_trimesh_dict traverses, the key cut at
\* its first underscore (the keys of _build_layers_v0 are layer names)
TrimeshEntries(table) ==
    {<<l, table[l][1], table[l][2]>> : l \in DOMAIN table}

\* the entries the scripted path of meep_geometry traverses, the key cut at
\* its first underscore (the keys of _build_layers are layer_old_new)
MeepEntries(table) ==
    {<<nm[1], table[nm][1], table[nm][2]>> : nm \in DOMAIN table}

\* the prisms of the traversed entries, concatenated per layer
PrismsPerLayer(entries, names) ==
    [l \in {e[1] : e \in entries} \cap names |->
        UNION {Prisms(e[2], e[3]) : e \in {x \in entries : x[1] = l}}]

InitExport ==
    /\ pattern_to_layer = DesignPairs
    /\ layer_to_pattern = InitMultilayer(pattern_to_layer)
    /\ layer_to_zrange \in ZrangeTables
    /\ layer_to_pattern_processed = layer_to_pattern
    /\ topo_map_dict = [key \in {UmStr(0)} |-> BoundingBox]
    /\ old_topo_map_dict = topo_map_dict
    /\ dilated_topo_map_dict = topo_map_dict
    /\ layer_to_extrusion = <<>>
    /\ new_zrange = <<0, 0>>
    /\ step = {}
    /\ operations = <<>>
    /\ k = 0
    /\ layer = NoLayer
    /\ other_layer = NoLayer
    /\ operation = "union"
    /\ pattern = {}
    /\ raising_pattern = {}
    /\ thickness = 0
    /\ heights = {}
    /\ bound = {}
    /\ n_rel = 0
    /\ pc = "idle"
    /\ exception = "none"
    /\ process_extrusion \in
           {[is_none |-> TRUE, items |-> <<>>]}
           \cup {[is_none |-> FALSE, items |-> sc] : sc \in ExportScripts}
    /\ n_step = 0
    /\ trimesh_extrusion = <<>>
    /\ meshes = <<>>
    /\ trimesh_result = "none"
    /\ meep_geometries = <<>>
    /\ meep_result = "none"

\* to_trimesh_dict(layer_to_zrange, process_extrusion, include_oxide), with
\* layer_to_color left None
ToTrimeshDict(include_oxide) ==
    /\ pc = "idle"
    /\ trimesh_result = "none"
    /\ IF include_oxide /\ "oxide" \notin DOMAIN layer_to_pattern
       THEN /\ pattern_to_layer' = Append(pattern_to_layer, <<"box", "oxide">>)
            /\ layer_to_pattern' = InitMultilayer(pattern_to_layer')
       ELSE UNCHANGED <<pattern_to_layer, layer_to_pattern>>
    /\ IF ~process_extrusion.is_none
       THEN LET st == BuildLayersV0(layer_to_pattern', layer_to_zrange,
                                    process_extrusion.items)
            IN  IF st.raised
                THEN /\ trimesh_result' = "KeyError"
                     /\ trimesh_extrusion' = <<>>
                     /\ meshes' = <<>>
                ELSE /\ trimesh_result' = "returned"
                     /\ trimesh_extrusion' = st.extrusion
                     /\ meshes' = PrismsPerLayer(TrimeshEntries(st.extrusion),
                                                 DOMAIN st.extrusion)
       ELSE /\ trimesh_result' = "returned"
            /\ trimesh_extrusion' = <<>>
            /\ meshes' =
                   [l \in DOMAIN layer_to_pattern' \cap DOMAIN layer_to_zrange |->
                       Prisms(layer_to_pattern'[l], layer_to_zrange[l])]
    /\ UNCHANGED <<pc, process_extrusion, n_step, meep_geometries, meep_result>>
    /\ UNCHANGED interp_vars

\* meep_geometry with a script: the call of _build_layers and its prologue
MeepBuildLayers ==
    /\ pc = "idle"
    /\ meep_result = "none"
    /\ ~process_extrusion.is_none
    /\ layer_to_pattern_processed' = layer_to_pattern
    /\ topo_map_dict' = [key \in {UmStr(0)} |-> BoundingBox]
    /\ old_topo_map_dict' = topo_map_dict'
    /\ dilated_topo_map_dict' = topo_map_dict'
    /\ layer_to_extrusion' = <<>>
    /\ pc' = "loop"
    /\ UNCHANGED <<pattern_to_layer, layer_to_pattern, layer_to_zrange,
                   new_zrange, step, operations, k, layer, other_layer,
                   operation, pattern, raising_pattern, thickness, heights,
                   bound, n_rel, exception>>
    /\ UNCHANGED export_vars

\* the next step of process_extrusion
ScriptBeginStep ==
    /\ n_step < Len(process_extrusion.items)
    /\ BeginStep(process_extrusion.items[n_step + 1].name,
                 [r \in 1..Len(process_extrusion.items[n_step + 1].operations) |->
                     process_extrusion.items[n_step + 1].operations[r][1]])
    /\ n_step' = n_step + 1
    /\ UNCHANGED <<process_extrusion, trimesh_extrusion, meshes, trimesh_result,
                   meep_geometries, meep_result>>

\* the reference layer and the operation of the next relation of the script
ScriptOther == process_extrusion.items[n_step].operations[k + 1][2]
ScriptOperation == process_extrusion.items[n_step].operations[k + 1][3]

\* the current step has a relation left
ScriptUnpack == pc = "loop" /\ k < Len(operations)

\* the script has no step left
ScriptEnd == n_step = Len(process_extrusion.items)

\* meep_geometry traverses the table _build_layers returned and returns
MeepTraverse(materials) ==
    /\ pc = "done"
    /\ meep_geometries' = PrismsPerLayer(MeepEntries(layer_to_extrusion), materials)
    /\ meep_result' = "returned"
    /\ pc' = "idle"
    /\ UNCHANGED <<pattern_to_layer, layer_to_pattern, process_extrusion, n_step,
                   trimesh_extrusion, meshes, trimesh_result, exception>>
    /\ UNCHANGED <<layer_to_zrange, layer_to_pattern_processed, topo_map_dict,
                   old_topo_map_dict, dilated_topo_map_dict, layer_to_extrusion,
                   new_zrange, step, operations, k, layer, other_layer,
                   operation, pattern, raising_pattern, thickness, heights,
                   bound, n_rel>>

\* the exception of _build_layers leaves meep_geometry
MeepRaised ==
    /\ pc = "raised"
    /\ meep_result' = exception
    /\ pc' = "idle"
    /\ UNCHANGED <<pattern_to_layer, layer_to_pattern, process_extrusion, n_step,
                   trimesh_extrusion, meshes, trimesh_result, meep_geometries>>
    /\ UNCHANGED interp_vars

\* meep_geometry without script: a layer with a material and without z-range
\* raises KeyError
MeepGeometryUnscripted(materials) ==
    /\ pc = "idle"
    /\ meep_result = "none"
    /\ process_extrusion.is_none
    /\ IF \E l \in DOMAIN layer_to_pattern \cap materials :
              l \notin DOMAIN layer_to_zrange
       THEN /\ meep_result' = "KeyError"
            /\ meep_geometries' = <<>>
       ELSE /\ meep_result' = "returned"
            /\ meep_geometries' =
                   [l \in DOMAIN layer_to_pattern \cap materials |->
                       Prisms(layer_to_pattern[l], layer_to_zrange[l])]
    /\ UNCHANGED <<pattern_to_layer, layer_to_pattern, pc, process_extrusion,
                   n_step, trimesh_extrusion, meshes, trimesh_result>>
    /\ UNCHANGED interp_vars

NextExport ==
    \/ \E include_oxide \in BOOLEAN : ToTrimeshDict(include_oxide)
    \/ MeepBuildLayers
    \/ ScriptBeginStep
    \/ /\ ScriptUnpack
       /\ RelationNotPresent(ScriptOther, ScriptOperation)
       /\ UNCHANGED export_vars
    \/ /\ ScriptUnpack
       /\ RelationKeyError(ScriptOther, ScriptOperation)
       /\ UNCHANGED export_vars
    \/ /\ ScriptUnpack
       /\ RelationUnbound(ScriptOther, ScriptOperation)
       /\ UNCHANGED export_vars
    \/ /\ ScriptUnpack
       /\ RelationProcessed(ScriptOther, ScriptOperation)
       /\ UNCHANGED export_vars
    \/ ScriptEnd /\ Return /\ UNCHANGED export_vars
    \/ ScriptEnd /\ ReturnUnbound /\ UNCHANGED export_vars
    \/ \E materials \in MaterialTables : MeepTraverse(materials)
    \/ MeepRaised
    \/ \E materials \in MaterialTables : MeepGeometryUnscripted(materials)

SpecExport == InitExport /\ [][NextExport]_vars

----------------------------------------------------------------------------
(* Properties of the interpreter. *)

\* the height map _build_layers starts from
InitialTopo == [key \in {UmStr(0)} |-> BoundingBox]

\* the relation unpacked last went through surface raise and bookkeeping
LastProcessed == pc = "loop" /\ k > 0 /\ InLayers(layer)

\* C1: after every relation the height map is a partition of the bounding
\* box: cross-sections at distinct elevations are disjoint, each lies in the
\* bounding box, and together they cover it.
C1_HeightMapPartition ==
    /\ \A k1, k2 \in DOMAIN topo_map_dict :
           k1 # k2 => topo_map_dict[k1] \cap topo_map_dict[k2] = {}
    /\ \A k1 \in DOMAIN topo_map_dict : topo_map_dict[k1] \subseteq BoundingBox
    /\ UNION {topo_map_dict[k1] : k1 \in DOMAIN topo_map_dict} = BoundingBox

\* a conformal etch of positive thickness over two elevations, in which the
\* dilation moved area, has been raised
C1_Witness ==
    /\ LastProcessed
    /\ Has("conformal", step) /\ Has("etch", step)
    /\ thickness > 0
    /\ Cardinality(heights) >= 2
    /\ dilated_topo_map_dict # old_topo_map_dict
    /\ topo_map_dict # dilated_topo_map_dict

\* C2: a script of one plain deposition relation with non-empty pattern P and
\* thickness T > 0 returns exactly the entry (P, (0, T)) and leaves the
\* height map {0: bounding box minus P, T: P}.
C2_SingleDeposition ==
    ( /\ pc = "done"
      /\ n_rel = 1 /\ Len(operations) = 1
      /\ step \cap Tags = {}
      /\ pattern # {}
      /\ thickness > 0 )
    => /\ DOMAIN layer_to_extrusion = {<<layer, UmStr(0), UmStr(thickness)>>}
       /\ layer_to_extrusion[<<layer, UmStr(0), UmStr(thickness)>>]
              = <<pattern, <<0, thickness>> >>
       /\ DOMAIN topo_map_dict = {UmStr(0), UmStr(thickness)}
       /\ topo_map_dict[UmStr(thickness)] = pattern
       /\ topo_map_dict[UmStr(0)] = BoundingBox \ pattern

C2_Witness ==
    /\ pc = "done"
    /\ n_rel = 1 /\ Len(operations) = 1
    /\ step \cap Tags = {}
    /\ pattern # {} /\ pattern # BoundingBox
    /\ thickness > 0
    /\ other_layer \in DOMAIN layer_to_pattern

\* the current step has two relations, both primary layers are in the layer
\* store and exactly one of them has no z-range
TwoRelationsOneMissing ==
    /\ Len(operations) = 2
    /\ \A i \in 1..2 : operations[i] \in DOMAIN layer_to_pattern
    /\ Cardinality({i \in 1..2 : operations[i] \notin DOMAIN layer_to_zrange}) = 1

\* C3: a two-relation step (not a doping step) in which exactly one relation
\* names a layer without z-range, both layers being in the layer store, runs
\* without an unhandled failure, and when the relation with the z-range comes
\* second and raises a non-empty pattern its entry is in the table.
C3_MissingZrangeResilience ==
    (TwoRelationsOneMissing /\ ~Has("dope", step))
    => /\ pc # "raised"
       /\ ( /\ k = 2
            /\ layer \in DOMAIN layer_to_zrange
            /\ raising_pattern # {} /\ thickness > 0 )
          => \E nm \in DOMAIN layer_to_extrusion : nm[1] = layer

\* C4: a relation whose primary layer has no z-range is skipped: it adds no
\* entry to the extrusion table and leaves the height map unchanged.
C4_MissingZrangeSkipped ==
    [][ (n_rel' = n_rel + 1 /\ layer' \notin DOMAIN layer_to_zrange)
        => /\ layer_to_extrusion' = layer_to_extrusion
           /\ topo_map_dict' = topo_map_dict ]_vars

\* C5: for a processed relation whose layer has a z-range (z0, z1): in a
\* doping intersection with reference z-range (ozmin, ozmax), new_zrange is
\* (max(ozmax - (z1 - z0), ozmin), ozmax), the thickness raised is
\* min(z1 - z0, ozmax - ozmin) and new_zrange lies in the reference range;
\* for every other relation new_zrange is the layer's table entry.
C5_DopeZrange ==
    (pc = "loop" /\ k > 0 /\ layer \in DOMAIN layer_to_zrange)
    => IF InLayers(layer) /\ IsDoping(step, operation)
       THEN LET z0 == layer_to_zrange[layer][1]
                z1 == layer_to_zrange[layer][2]
                ozmin == layer_to_zrange[other_layer][1]
                ozmax == layer_to_zrange[other_layer][2]
            IN  /\ new_zrange = <<Max({ozmax - (z1 - z0), ozmin}), ozmax>>
                /\ thickness = Min({z1 - z0, ozmax - ozmin})
                /\ ozmin <= new_zrange[1] /\ new_zrange[1] <= new_zrange[2]
                /\ new_zrange[2] = ozmax
       ELSE /\ new_zrange = layer_to_zrange[layer]
            /\ InLayers(layer) => thickness = new_zrange[2] - new_zrange[1]

\* the example of the specification, in units of 0.001: layer (0, 0.2) doped
\* into reference (0, 1.0) gives (0.8, 1.0)
C5_Witness ==
    /\ LastProcessed
    /\ IsDoping(step, operation)
    /\ layer_to_zrange[layer] = <<0, 200>>
    /\ layer_to_zrange[other_layer] = <<0, 1000>>
    /\ new_zrange = <<800, 1000>>
    /\ thickness = 200

\* C7: an entry of the extrusion table, once recorded, is never removed or
\* rewritten by a later relation.
C7_EntriesWrittenOnce ==
    [][ \A nm \in DOMAIN layer_to_extrusion :
            /\ nm \in DOMAIN layer_to_extrusion'
            /\ layer_to_extrusion'[nm] = layer_to_extrusion[nm] ]_vars

\* C8: the height map starts as {0: bounding box}; no relation removes a key,
\* elevation 0 stays a key, and every new key is an elevation that existed
\* when the relation began plus the relation's thickness.
C8_KeysOnlyGrow ==
    /\ [](n_rel = 0 => topo_map_dict = InitialTopo)
    /\ [](UmStr(0) \in DOMAIN topo_map_dict)
    /\ [][ /\ DOMAIN topo_map_dict \subseteq DOMAIN topo_map_dict'
           /\ \A key \in DOMAIN topo_map_dict' \ DOMAIN topo_map_dict :
                  \E old \in DOMAIN topo_map_dict :
                      key = UmStr(Float(old) + thickness') ]_vars

\* a relation over two elevations created a third
C8_Witness ==
    /\ LastProcessed
    /\ Cardinality(heights) = 2
    /\ Cardinality(DOMAIN topo_map_dict) = 3
    /\ thickness > 0

\* C10: a run in which no relation's primary layer is in the layer store (no
\* relation ever assigned `pattern`), the empty script included, returns an
\* empty extrusion table and the initial height map.
C10_AbsentLayersReturnEmpty ==
    (pc \in {"done", "raised"} /\ "pattern" \notin bound)
    => /\ pc = "done"
       /\ layer_to_extrusion = <<>>
       /\ topo_map_dict = InitialTopo

----------------------------------------------------------------------------
(* Properties of the layer store (SpecStore). *)

\* the cells a layer covers in a layer store; none when the layer is absent
Coverage(store, lay) == IF lay \in DOMAIN store THEN store[lay] ELSE {}

\* a pair list reordered by the permutation f of its indices
Reordered(pairs, f) == [i \in DOMAIN pairs |-> pairs[f[i]]]

\* C9: the layer store built from a pair list covers, for every layer name in
\* the list, the union of the patterns of all pairs with that name, and every
\* permutation of the list builds the same store.
C9_StoreIsUnionPerName ==
    /\ \A i \in DOMAIN pattern_to_layer :
           Coverage(layer_to_pattern, pattern_to_layer[i][2]) =
               UNION {Polys(pattern_to_layer[j][1]) :
                        j \in {j \in DOMAIN pattern_to_layer :
                                 pattern_to_layer[j][2] = pattern_to_layer[i][2]}}
    /\ \A f \in Permutations(DOMAIN pattern_to_layer) :
           InitMultilayer(Reordered(pattern_to_layer, f)) = layer_to_pattern

----------------------------------------------------------------------------
(* Properties of conformal dilation (SpecTopo). *)

\* _conformal_dilation run over the elevations in ascending order
AscendingDilation ==
    ConformalDilation(SortAsc({Float(h) : h \in heights}), thickness,
                      old_topo_map_dict, raising_pattern, BoundingBox)

\* the cross-section of an elevation grown by the thickness inside the raising
\* pattern
Grown(key) ==
    (Offset(old_topo_map_dict[key], thickness) \cap raising_pattern)
        \cup old_topo_map_dict[key]

\* the key of the shortest elevation
Shortest == UmStr(Min({Float(h) : h \in heights}))

\* the key of the tallest elevation
Tallest == UmStr(Max({Float(h) : h \in heights}))

\* C6 as claimed, for height maps without empty cross-sections: whenever the
\* grown cross-section of a taller elevation overlaps the cross-section of a
\* shorter elevation, the ascending order gives a height map different from
\* the descending order's.
C6_OrderSensitive ==
    ( /\ pc = "dilated"
      /\ Cardinality(heights) >= 2
      /\ \A h \in heights : old_topo_map_dict[h] # {}
      /\ \E hi, lo \in heights :
             /\ Float(hi) > Float(lo)
             /\ Grown(hi) \cap old_topo_map_dict[lo] # {} )
    => AscendingDilation # dilated_topo_map_dict

\* C6 as amended: whenever the grown cross-section of a taller elevation
\* overlaps the cross-section of the shortest elevation, the ascending order
\* gives a height map different from the descending order's.
C6_OrderSensitiveShortest ==
    ( /\ pc = "dilated"
      /\ Cardinality(heights) >= 2
      /\ \E hi \in heights :
             /\ Float(hi) > Float(Shortest)
             /\ Grown(hi) \cap old_topo_map_dict[Shortest] # {} )
    => AscendingDilation # dilated_topo_map_dict

\* three elevations, the tallest grown into the shortest
C6_Witness ==
    /\ pc = "dilated"
    /\ Cardinality(heights) = 3
    /\ \A h \in heights : old_topo_map_dict[h] # {}
    /\ Grown(Tallest) \cap old_topo_map_dict[Shortest] # {}
    /\ AscendingDilation # dilated_topo_map_dict

----------------------------------------------------------------------------
(* Properties of one relation on a given height map (SpecTopo). *)

\* the elevations at which the height map holds cell c
ElevationsOf(topo, c) == {Float(h) : h \in {key \in DOMAIN topo : c \in topo[key]}}

\* C13: in a relation that is not conformal, with thickness >= 0, the surface
\* raise moves every point exactly once: a point inside the raising pattern
\* ends at its elevation at the start of the relation plus the thickness, a
\* point outside keeps its elevation, also when the raised area lands on an
\* elevation that already existed.
C13_RaisedExactlyOnce ==
    (pc = "surface" /\ ~Has("conformal", step) /\ thickness >= 0)
    => \A c \in BoundingBox :
           ElevationsOf(topo_map_dict, c) =
               {e + (IF c \in raising_pattern THEN thickness ELSE 0) :
                    e \in ElevationsOf(old_topo_map_dict, c)}

\* a relation that is not conformal raised area from one elevation onto an
\* elevation that existed before and from which area was raised as well
C13_Witness ==
    /\ pc = "surface" /\ ~Has("conformal", step) /\ thickness > 0
    /\ \E lo, hi \in heights :
           /\ Float(hi) = Float(lo) + thickness
           /\ old_topo_map_dict[lo] \cap raising_pattern # {}
           /\ old_topo_map_dict[hi] \cap raising_pattern # {}
           /\ old_topo_map_dict[hi] \ raising_pattern # {}

----------------------------------------------------------------------------
(* Properties of the bookkeeping of one relation (Spec). *)

\* the step processes a relation: surface raise and bookkeeping have run
ProcessedStep == n_rel' = n_rel + 1 /\ pc' = "loop" /\ InLayers(layer')

\* the area that was at elevation old before the step and is at new after it
Moved(old, new) == topo_map_dict[old] \cap topo_map_dict'[new]

\* the names of the entries a processed relation has to write
WrittenNames ==
    {ExtrusionName(layer', pr[1], pr[2]) :
        pr \in {q \in (DOMAIN topo_map_dict) \X (DOMAIN topo_map_dict') :
                   Float(q[2]) > Float(q[1]) /\ Moved(q[1], q[2]) # {}}}

\* C14: after a relation on layer L, for every elevation old present at the
\* start and every elevation new > old present afterwards, the table holds
\* the entry L_old_new written by this relation exactly when the set of points
\* that were at old before and are at new after is non-empty; the entry's
\* cross-section is that set and its z-interval is (old, new); every other
\* entry of the table, those with new <= old included, is left as it was.
C14_EntriesAreMovedArea ==
    [][ProcessedStep =>
          /\ \A old \in DOMAIN topo_map_dict, new \in DOMAIN topo_map_dict' :
                 (Float(new) > Float(old) /\ Moved(old, new) # {})
                 => /\ ExtrusionName(layer', old, new) \in DOMAIN layer_to_extrusion'
                    /\ layer_to_extrusion'[ExtrusionName(layer', old, new)]
                           = <<Moved(old, new), <<Float(old), Float(new)>> >>
          /\ DOMAIN layer_to_extrusion' = DOMAIN layer_to_extrusion \cup WrittenNames
          /\ \A nm \in DOMAIN layer_to_extrusion' \ WrittenNames :
                 layer_to_extrusion'[nm] = layer_to_extrusion[nm]
       ]_vars

\* a processed relation wrote two entries, and some pair old < new of present
\* elevations had no area moving between them
C14_Witness ==
    /\ LastProcessed
    /\ Cardinality(ExtrusionPairs(heights, topo_map_dict, old_topo_map_dict)) >= 2
    /\ \E old \in heights, new \in DOMAIN topo_map_dict :
           /\ Float(new) > Float(old)
           /\ topo_map_dict[new] \cap old_topo_map_dict[old] = {}

----------------------------------------------------------------------------
(* Which elevations conformal dilation grows (SpecTopo). *)

\* the keys of the elevations taller than the one of key
Taller(key) == {h \in heights : Float(h) > Float(key)}

\* the keys of the elevations shorter than the one of key
Shorter(key) == {h \in heights : Float(h) < Float(key)}

\* C15 as claimed: in conformal dilation only the tallest elevation's
\* cross-section is grown: the cross-section of every shorter elevation after
\* the dilation is a subset of its cross-section before.
C15_OnlyTallestGrown ==
    pc = "dilated"
    => \A h \in heights \ {Tallest} :
           dilated_topo_map_dict[h] \subseteq old_topo_map_dict[h]

\* C15 amended: conformal dilation grows the cross-section of every elevation
\* and then takes from it what the grown cross-sections of the taller
\* elevations cover; an elevation gains area only from shorter elevations,
\* and the shortest elevation's cross-section after the dilation is a subset
\* of its cross-section before.
C15_EveryElevationGrown ==
    pc = "dilated"
    => /\ \A h \in heights :
              /\ dilated_topo_map_dict[h] =
                     BoundingBox \cap
                         (Grown(h) \ UNION {Grown(h2) : h2 \in Taller(h)})
              /\ dilated_topo_map_dict[h] \ old_topo_map_dict[h]
                     \subseteq UNION {old_topo_map_dict[h2] : h2 \in Shorter(h)}
       /\ dilated_topo_map_dict[Shortest] \subseteq old_topo_map_dict[Shortest]

\* the dilation gave an elevation that is neither the tallest nor the
\* shortest area it did not have before
C15_Witness ==
    /\ pc = "dilated"
    /\ thickness > 0
    /\ \E h \in heights \ {Tallest, Shortest} :
           /\ old_topo_map_dict[h] # {}
           /\ dilated_topo_map_dict[h] \ old_topo_map_dict[h] # {}

----------------------------------------------------------------------------
(* No point is lowered (SpecTopo). *)

\* C16: no point is ever lowered.  After a relation with thickness >= 0,
\* conformal or not, every point of the bounding box has an elevation and it
\* is at least the point's elevation before the relation; in conformal
\* dilation a cross-section loses area only to a strictly taller elevation,
\* so the tallest elevation loses none.
C16_NeverLowered ==
    /\ (pc = "surface" /\ thickness >= 0)
       => \A c \in BoundingBox :
              /\ ElevationsOf(topo_map_dict, c) # {}
              /\ \A before \in ElevationsOf(old_topo_map_dict, c),
                    after \in ElevationsOf(topo_map_dict, c) : after >= before
    /\ pc = "dilated"
       => /\ \A h \in heights :
                 old_topo_map_dict[h] \ dilated_topo_map_dict[h]
                     \subseteq UNION {dilated_topo_map_dict[h2] : h2 \in Taller(h)}
          /\ old_topo_map_dict[Tallest] \subseteq dilated_topo_map_dict[Tallest]

\* a conformal relation over three occupied elevations in which the dilation
\* took area from an elevation and the surface raise then moved area up
C16_Witness ==
    /\ pc = "surface" /\ Has("conformal", step) /\ thickness > 0
    /\ Cardinality({h \in heights : old_topo_map_dict[h] # {}}) = 3
    /\ \E h \in heights : old_topo_map_dict[h] \ dilated_topo_map_dict[h] # {}
    /\ topo_map_dict # dilated_topo_map_dict

----------------------------------------------------------------------------
(* The working layer store (Spec). *)

\* the step unpacks a relation
UnpackStep == n_rel' = n_rel + 1

\* what the working layer store holds after a relation is unpacked
WorkingStoreAfter ==
    /\ IF InLayers(layer') /\ InLayers(other_layer')
       THEN layer_to_pattern_processed' =
                [layer_to_pattern_processed EXCEPT ![layer'] =
                    BooleanOperation(layer_to_pattern_processed[layer'],
                                     layer_to_pattern_processed[other_layer'],
                                     operation')]
       ELSE layer_to_pattern_processed' = layer_to_pattern_processed
    /\ (pc' = "loop" /\ InLayers(layer'))
       => pattern' = layer_to_pattern_processed'[layer']

\* C17 as claimed: when the primary and the reference layer are both in the
\* working layer store the primary's entry is overwritten by the boolean
\* result, also when it is empty, and relations that come later work on the
\* overwritten shape; when only the primary is present the store is
\* unchanged; the reference layer's entry is never changed by the relation.
C17_ReferenceNeverChanged ==
    [][UnpackStep =>
          /\ WorkingStoreAfter
          /\ InLayers(other_layer')
             => layer_to_pattern_processed'[other_layer']
                    = layer_to_pattern_processed[other_layer']
       ]_vars

\* C17 amended: as claimed, but the reference layer's entry is unchanged when
\* the reference layer is not the primary layer itself.
C17_WorkingStore ==
    [][UnpackStep =>
          /\ WorkingStoreAfter
          /\ (InLayers(other_layer') /\ other_layer' # layer')
             => layer_to_pattern_processed'[other_layer']
                    = layer_to_pattern_processed[other_layer']
       ]_vars

\* the second relation took as reference a layer that the first relation had
\* overwritten, and its own empty result was stored
C17_Witness ==
    /\ LastProcessed
    /\ n_rel = 2
    /\ InLayers(other_layer) /\ other_layer # layer
    /\ layer_to_pattern_processed[other_layer] # layer_to_pattern[other_layer]
    /\ layer_to_pattern[layer] # {}
    /\ layer_to_pattern_processed[layer] = {}

----------------------------------------------------------------------------
(* The slabs of the extrusion table (Spec). *)

\* the entries of the extrusion table whose cross-section contains cell c
SlabsAt(c) == {nm \in DOMAIN layer_to_extrusion : c \in layer_to_extrusion[nm][1]}

\* the z-interval of an entry
ZLow(nm) == layer_to_extrusion[nm][2][1]
ZHigh(nm) == layer_to_extrusion[nm][2][2]

\* C18: slabs never occupy the same space.  Every entry of the extrusion
\* table has z-low < z-high and a non-empty cross-section; at every point the
\* z-intervals of the entries whose cross-section contains the point have
\* pairwise disjoint interiors, and none of them ends above the point's
\* current elevation.
C18_SlabsDisjoint ==
    /\ \A nm \in DOMAIN layer_to_extrusion :
           ZLow(nm) < ZHigh(nm) /\ layer_to_extrusion[nm][1] # {}
    /\ \A c \in BoundingBox :
           /\ \A n1, n2 \in SlabsAt(c) :
                  n1 # n2 => (ZHigh(n1) <= ZLow(n2) \/ ZHigh(n2) <= ZLow(n1))
           /\ \A nm \in SlabsAt(c), e \in ElevationsOf(topo_map_dict, c) :
                  ZHigh(nm) <= e

\* two relations have stacked two slabs on one point, while another point
\* carries a single slab
C18_Witness ==
    /\ LastProcessed
    /\ \E c \in BoundingBox : Cardinality(SlabsAt(c)) = 2
    /\ \E c \in BoundingBox : Cardinality(SlabsAt(c)) = 1
    /\ Cardinality(DOMAIN layer_to_extrusion) >= 3

----------------------------------------------------------------------------
(* Properties of the export adapters (SpecExport). *)

\* the relations of the script given to the adapters
ScriptRelations == FlatRelations(process_extrusion.items, 1)

\* the call names a layer without z-range: a layer of the layer store on the
\* path without script, the primary layer of a relation on the scripted path
NamesLayerWithoutZrange ==
    IF process_extrusion.is_none
    THEN \E l \in DOMAIN layer_to_pattern : l \notin DOMAIN layer_to_zrange
    ELSE \E r \in DOMAIN ScriptRelations :
             ScriptRelations[r][2] \notin DOMAIN layer_to_zrange

\* the layers of the layer store that have a z-range and that the script
\* names in a relation without reference layer outside doping
PlainScriptLayers ==
    {ScriptRelations[r][2] :
        r \in {q \in DOMAIN ScriptRelations :
                  /\ ScriptRelations[q][3] = NoLayer
                  /\ ~IsDoping(ScriptRelations[q][1], ScriptRelations[q][4])}}
    \cap DOMAIN layer_to_pattern \cap DOMAIN layer_to_zrange

\* C11: in to_trimesh_dict, with and without script, a layer without z-range
\* is reported and skipped: the call returns, and the meshes of the other
\* layers are produced (without script: of every layer of the layer store
\* that has a z-range; with script: of every such layer that the script
\* names in a plain relation).
C11_TrimeshSkipsMissingZrange ==
    (trimesh_result # "none" /\ NamesLayerWithoutZrange)
    => /\ trimesh_result = "returned"
       /\ IF process_extrusion.is_none
          THEN DOMAIN meshes = DOMAIN layer_to_pattern \cap DOMAIN layer_to_zrange
          ELSE PlainScriptLayers \subseteq DOMAIN meshes

\* C12: with a script, and the layer store the same for both calls,
\* to_trimesh_dict and meep_geometry traverse the same extrusion table: the
\* entries (layer, cross-section, (old elevation, new elevation)) of the
\* table the topographic interpreter returns.
C12_SameExtrusionTable ==
    ( /\ ~process_extrusion.is_none
      /\ trimesh_result = "returned"
      /\ meep_result = "returned"
      /\ "oxide" \notin DOMAIN layer_to_pattern )
    => TrimeshEntries(trimesh_extrusion) = MeepEntries(layer_to_extrusion)
====
